---- MODULE Spec2Model ----
(***************************************************************************)
(* Model of squap's reactive input-box engine: the InputTable row manager  *)
(* (input_widget.py), the box variants with their bind / unbind /          *)
(* set_value / change_params / remove methods, and TableManager.link_boxes *)
(* (table_manager.py).  The host toolkit's signal/slot mechanism is        *)
(* modelled as ordered connection lists: connect appends, disconnect       *)
(* removes the first matching connection, emit calls the connected slots   *)
(* in connection order.                                                    *)
(*                                                                         *)
(* All boxes are constructed with a non-empty name and no var_name, so     *)
(* every box owns the store variable of its own name (its box id) and the  *)
(* column of a box's cell is fixed by its variant.                         *)
(***************************************************************************)
EXTENDS Integers, Sequences, FiniteSets

VARIABLES current_row, empty_rows, boxes, kind, row, wval, cell,
          change_funcs, link_funcs, printing_val, option_names, sig, cellChanged,
          variables, n_links, links, update_funcs, in_middle, position,
          current_name, var_name, arr, n_ticks, type_func,
          time_var, ctor_time_var, get_t, timer, bound, log, err, qt_strict

vars == <<current_row, empty_rows, boxes, kind, row, wval, cell,
          change_funcs, link_funcs, printing_val, option_names, sig, cellChanged,
          variables, n_links, links, update_funcs, in_middle, position,
          current_name, var_name, arr, n_ticks, type_func,
          time_var, ctor_time_var, get_t, timer, bound, log, err, qt_strict>>

(* ---------------------------- bounds ---------------------------------- *)
NBoxes == 4
MaxRow == 3
MaxVal == 1
NFuncs == 2
MaxLinks == 2
MaxBinds == 2
MaxDepth == 4
MaxSlots == 4
MaxUpdates == 3

BoxIds == 1..NBoxes
Rows == 0..MaxRow
Values == 0..MaxVal
Funcs == 1..NFuncs

(* Python's None for Box.row, the blank text "" of a vacated cell, and the *)
(* value of a name that was never set in the store.                        *)
None == -9
Blank == -1
Unset == -2

OwnSignalKinds == {"Slider", "CheckBox", "Button", "Dropdown", "ColorPicker"}
CellKinds == {"InputBox", "RateSlider"}
LinkableKinds == {"Slider", "InputBox", "RateSlider"}
AllKinds == OwnSignalKinds \cup CellKinds

(* the time source of a RateSlider is the wall clock (time_var None) or a   *)
(* store variable, named like the boxes; a time stamp is written as the    *)
(* source it was read from                                                 *)
Clock == 0

(* ------------------------- callables and slots ------------------------ *)
NoFn == [k |-> "none", i |-> 0, o |-> 0]
UserFn(i) == [k |-> "user", i |-> i, o |-> 0]
LinkFn(g, b) == [k |-> "link", i |-> g, o |-> b]
NoopFn(g, b) == [k |-> "noop", i |-> g, o |-> b]
OnChangeFn(b) == [k |-> "on_change", i |-> 0, o |-> b]
PrintValFn(b) == [k |-> "print_val", i |-> 0, o |-> b]
UpdateFn(b) == [k |-> "update", i |-> 0, o |-> b]

FuncSlot(f) == [t |-> "func", b |-> 0, f |-> f]
ActualSlot(b, f) == [t |-> "actual", b |-> b, f |-> f]
PrintFuncSlot(b) == [t |-> "print_func", b |-> b, f |-> PrintValFn(b)]

Event(e, b, f, v) == [ev |-> e, b |-> b, f |-> f, v |-> v]

(* ------------------------- sequence helpers --------------------------- *)
Range(q) == {q[i] : i \in 1..Len(q)}

IndexOf(q, x) == CHOOSE i \in 1..Len(q) : q[i] = x /\ \A j \in 1..(i - 1) : q[j] # x

RemoveAt(q, i) == SubSeq(q, 1, i - 1) \o SubSeq(q, i + 1, Len(q))

RemoveFirst(q, x) == IF x \in Range(q) THEN RemoveAt(q, IndexOf(q, x)) ELSE q

Count(q, x) == Cardinality({i \in 1..Len(q) : q[i] = x})

RECURSIVE SortAsc(_)
SortAsc(q) ==
  IF q = <<>> THEN <<>>
  ELSE LET m == CHOOSE x \in Range(q) : \A y \in Range(q) : x <= y
       IN <<m>> \o SortAsc(RemoveFirst(q, m))

(* ------------------------- the program state -------------------------- *)
Cur == [current_row |-> current_row, empty_rows |-> empty_rows, boxes |-> boxes,
        kind |-> kind, row |-> row, wval |-> wval, cell |-> cell,
        change_funcs |-> change_funcs, link_funcs |-> link_funcs,
        printing_val |-> printing_val, option_names |-> option_names,
        sig |-> sig, cellChanged |-> cellChanged,
        variables |-> variables, n_links |-> n_links, links |-> links,
        update_funcs |-> update_funcs, in_middle |-> in_middle,
        position |-> position, current_name |-> current_name,
        var_name |-> var_name, arr |-> arr, n_ticks |-> n_ticks, type_func |-> type_func,
        time_var |-> time_var, ctor_time_var |-> ctor_time_var, get_t |-> get_t,
        timer |-> timer,
        bound |-> bound, log |-> <<>>, err |-> "none",
        qt_strict |-> qt_strict]

Commit(s) ==
  /\ current_row' = s.current_row
  /\ empty_rows' = s.empty_rows
  /\ boxes' = s.boxes
  /\ kind' = s.kind
  /\ row' = s.row
  /\ wval' = s.wval
  /\ cell' = s.cell
  /\ change_funcs' = s.change_funcs
  /\ link_funcs' = s.link_funcs
  /\ printing_val' = s.printing_val
  /\ option_names' = s.option_names
  /\ sig' = s.sig
  /\ cellChanged' = s.cellChanged
  /\ variables' = s.variables
  /\ n_links' = s.n_links
  /\ links' = s.links
  /\ update_funcs' = s.update_funcs
  /\ in_middle' = s.in_middle
  /\ position' = s.position
  /\ current_name' = s.current_name
  /\ var_name' = s.var_name
  /\ arr' = s.arr
  /\ n_ticks' = s.n_ticks
  /\ type_func' = s.type_func
  /\ time_var' = s.time_var
  /\ ctor_time_var' = s.ctor_time_var
  /\ get_t' = s.get_t
  /\ timer' = s.timer
  /\ bound' = s.bound
  /\ log' = s.log
  /\ err' = s.err
  /\ qt_strict' = s.qt_strict

Ok(s) == s.err = "none"
Raise(s, e) == IF Ok(s) THEN [s EXCEPT !.err = e] ELSE s
Log(s, e) == [s EXCEPT !.log = Append(@, e)]

(* Every operation below takes the program state s and returns the state   *)
(* after it.  A raised exception is the field err; an operation applied to *)
(* a state that carries an exception returns it unchanged, so that nested  *)
(* applications read as the statements of the method in order, cut short   *)
(* by the first raise.                                                     *)

(* --------------------- signal / slot primitives ----------------------- *)
(* A signal is named by the box that owns it; 0 names the table's shared   *)
(* cellChanged signal, which InputBox and RateSlider use.                  *)
Slots(s, sg) == IF sg = 0 THEN s.cellChanged ELSE s.sig[sg]

SetSlots(s, sg, q) ==
  IF sg = 0 THEN [s EXCEPT !.cellChanged = q] ELSE [s EXCEPT !.sig[sg] = q]

SignalOf(s, b) == IF s.kind[b] \in CellKinds THEN 0 ELSE b

connect(s, sg, sl) ==
  IF ~Ok(s) THEN s ELSE SetSlots(s, sg, Append(Slots(s, sg), sl))

(* disconnect of a slot that is not connected: depending on the toolkit    *)
(* version this raises RuntimeError (qt_strict) or only warns.             *)
disconnect(s, sg, sl) ==
  IF ~Ok(s) THEN s
  ELSE IF sl \in Range(Slots(s, sg))
  THEN SetSlots(s, sg, RemoveFirst(Slots(s, sg), sl))
  ELSE IF s.qt_strict THEN Raise(s, "RuntimeError")
       ELSE Log(s, Event("warn", sl.b, sl.f, 0))

BoxAtRow(s, r) ==
  IF r >= 0 /\ r <= s.current_row /\ r + 1 <= Len(s.boxes) THEN s.boxes[r + 1] ELSE 0

EmitCtx(s, sg, arg) == IF sg = 0 THEN BoxAtRow(s, arg) ELSE sg

(* ----------------------------- Slider array --------------------------- *)
(* np.linspace(min_value, max_value, n) for the slider range 0..2 *)
MinValue == 0
MaxValue == 2

Linspace(n) ==
  CASE n = 0 -> <<>>
    [] n = 1 -> <<MinValue>>
    [] n = 2 -> <<MinValue, MaxValue>>
    [] OTHER -> <<MinValue, (MinValue + MaxValue) \div 2, MaxValue>>

(* the array of a Slider constructed with n_ticks = 2 *)
SliderArr == Linspace(2)

Abs(x) == IF x < 0 THEN 0 - x ELSE x

(* an argmin that returned the highest index on ties *)
ArgMinLast(a, v) ==
  (CHOOSE i \in 1..Len(a) :
      /\ \A j \in 1..Len(a) : Abs(a[i] - v) <= Abs(a[j] - v)
      /\ \A j \in (i + 1)..Len(a) : Abs(a[j] - v) > Abs(a[i] - v)) - 1

(* np.argmin(np.abs(arr - v)): 0-based, lowest index on ties *)
ArgMin(a, v) ==
  (CHOOSE i \in 1..Len(a) :
      /\ \A j \in 1..Len(a) : Abs(a[i] - v) <= Abs(a[j] - v)
      /\ \A j \in 1..(i - 1) : Abs(a[j] - v) > Abs(a[i] - v)) - 1

(* Dropdown: options[i], the value selected by index i *)
Option(i) == MaxVal - i

OptionIndex(v) == MaxVal - v

(* ------------------- values and texts of an InputBox ------------------ *)
(* a number and its text are written alike. The numeric array of entries   *)
(* v, v is Array(v); its text json.dumps(value.tolist()), "[v, v]", and    *)
(* its native text str(value), "[v v]", are different texts; the list      *)
(* [v, v] is a fourth value.                                               *)
Array(v) == 100 + v
Arrays == {Array(v) : v \in Values}
json_dumps(a) == a + 100
str_array(a) == a + 200
ListOf(a) == a + 300

(* a value of a type get_type_func does not list, such as bytes; its text  *)
(* is written like the value                                               *)
Unsupported == 50

(* str(value), the text InputBox writes for a value that is no string *)
str_value(v) == IF v \in Arrays THEN str_array(v) ELSE v

(* type_func(text), Blank for a text it raises on. np.array(json.loads())  *)
(* reads JSON list text and the text of a number (as a 0-d array, written  *)
(* as the number); ast.literal_eval reads JSON list text as a list and     *)
(* raises SyntaxError on "[v v]"                                           *)
ApplyTypeFunc(tf, text) ==
  IF text \in {json_dumps(a) : a \in Arrays}
  THEN (IF tf = "json" THEN text - 100 ELSE ListOf(text - 100))
  ELSE IF text \in {str_array(a) : a \in Arrays} THEN Blank
  ELSE text

(* ------------------------------ Box.value ----------------------------- *)
(* names are numbered like the boxes: a box constructed without var_name   *)
(* reads and writes the store variable of its own name, its box id         *)
value(s, b) ==
  IF s.kind[b] = "ColorPicker" THEN s.wval[b] ELSE s.variables[s.current_name[b]]

SetVar(s, b, v) == IF ~Ok(s) THEN s ELSE [s EXCEPT !.variables[s.current_name[b]] = v]

SetWidget(s, b, v) == IF ~Ok(s) THEN s ELSE [s EXCEPT !.wval[b] = v]

(* the text of the box's own cell, coerced by type_func / float *)
val(s, b) ==
  IF s.kind[b] \in CellKinds
  THEN (IF s.row[b] \in Rows THEN ApplyTypeFunc(s.type_func[b], s.cell[s.row[b]]) ELSE Blank)
  ELSE IF s.kind[b] = "Dropdown" THEN Option(s.wval[b]) ELSE s.wval[b]

on_change(s, b, arg) ==
  CASE s.kind[b] = "Slider" -> SetVar(s, b, s.arr[b][s.wval[b] + 1])
    [] s.kind[b] = "CheckBox" -> SetVar(s, b, s.wval[b])
    [] s.kind[b] = "Dropdown" -> SetVar(s, b, Option(s.wval[b]))
    [] s.kind[b] = "ColorPicker" -> SetVar(s, b, s.wval[b])
    [] s.kind[b] \in CellKinds ->
         IF arg # s.row[b] THEN s
         ELSE IF val(s, b) = Blank THEN Raise(s, "ValueError")
         ELSE SetVar(s, b, val(s, b))
    [] OTHER -> Raise(s, "ValueError")

print_val(s, b) ==
  CASE s.kind[b] = "Slider" -> Log(s, Event("print", b, NoFn, value(s, b)))
    [] s.kind[b] = "Button" -> Raise(s, "ValueError")
    [] s.kind[b] \in CellKinds ->
         IF val(s, b) = Blank THEN Raise(s, "ValueError")
         ELSE Log(s, Event("print", b, NoFn, val(s, b)))
    [] OTHER -> Log(s, Event("print", b, NoFn, val(s, b)))

(* ---------------------------- bind / unbind --------------------------- *)
BoundSlot(s, b, f) ==
  IF s.kind[b] \in CellKinds /\ f # OnChangeFn(b) THEN ActualSlot(b, f) ELSE FuncSlot(f)

AppendFunc(s, b, f) == IF ~Ok(s) THEN s ELSE [s EXCEPT !.change_funcs[b] = Append(@, f)]

(* change_funcs.remove(func), which on_change never is in *)
RemoveFunc(s, b, f) ==
  IF ~Ok(s) \/ f = OnChangeFn(b) THEN s
  ELSE [s EXCEPT !.change_funcs[b] = RemoveFirst(@, f)]

(* history: bound[b] lists the callables given to a bind of box b that      *)
(* returned, less those given to an unbind of box b that returned           *)
NoteBind(s, b, f) == IF ~Ok(s) THEN s ELSE [s EXCEPT !.bound[b] = Append(@, f)]

NoteUnbind(s, b, f) == IF ~Ok(s) THEN s ELSE [s EXCEPT !.bound[b] = RemoveFirst(@, f)]

bind(s, b, f) ==
  NoteBind(connect(AppendFunc(s, b, f), SignalOf(s, b), BoundSlot(s, b, f)), b, f)

unbind(s, b, f) ==
  IF ~Ok(s) THEN s
  ELSE IF s.kind[b] = "Button"
  THEN (IF f \notin Range(s.change_funcs[b]) THEN Raise(s, "ValueError")
        ELSE NoteUnbind(disconnect(s, b, FuncSlot(f)), b, f))
  ELSE IF f \notin Range(s.change_funcs[b]) /\ f # OnChangeFn(b) THEN Raise(s, "ValueError")
  ELSE NoteUnbind(RemoveFunc(disconnect(s, SignalOf(s, b), BoundSlot(s, b, f)), b, f), b, f)

RECURSIVE UnbindAll(_, _, _)
UnbindAll(s, b, fs) ==
  IF fs = <<>> \/ ~Ok(s) THEN s ELSE UnbindAll(unbind(s, b, Head(fs)), b, Tail(fs))

RECURSIVE BindAll(_, _, _)
BindAll(s, b, fs) ==
  IF fs = <<>> \/ ~Ok(s) THEN s ELSE BindAll(bind(s, b, Head(fs)), b, Tail(fs))

HasLink(s, b, g) == \E i \in 1..Len(s.link_funcs[b]) : s.link_funcs[b][i].i = g

(* ------------------- emission, set_value, link func ------------------- *)
RECURSIVE Emit(_, _, _, _), EmitFrom(_, _, _, _, _), CallSlot(_, _, _, _, _)
RECURSIVE CallFn(_, _, _, _, _), set_value(_, _, _, _), LinkLoop(_, _, _, _, _, _)
RECURSIVE Push(_, _, _, _, _)

(* an exception escaping a slot is reported by the toolkit, not propagated *)
Swallow(s, sl) ==
  IF Ok(s) THEN s ELSE Log([s EXCEPT !.err = "none"], Event("slot_error", sl.b, sl.f, 0))

(* emit: the slots connected when the emission starts are called in        *)
(* connection order; one disconnected meanwhile is skipped.                *)
Emit(s, sg, arg, d) ==
  IF ~Ok(s) THEN s
  ELSE IF d > MaxDepth THEN Raise(s, "RecursionError")
  ELSE EmitFrom(s, sg, arg, Slots(s, sg), d)

EmitFrom(s, sg, arg, snap, d) ==
  IF snap = <<>> THEN s
  ELSE EmitFrom(Swallow(CallSlot(s, Head(snap), sg, arg, d), Head(snap)),
                sg, arg, Tail(snap), d)

(* actual_func and print_func are closures filtering on the box's row *)
CallSlot(s, sl, sg, arg, d) ==
  IF sl \notin Range(Slots(s, sg)) THEN s
  ELSE IF sl.t = "func" \/ (sg = 0 /\ arg = s.row[sl.b]) THEN CallFn(s, sl.f, sg, arg, d)
  ELSE s

(* the closure link_boxes creates for box f.o and group f.i reads the      *)
(* box's value and pushes it into the other boxes of the group             *)
CallFn(s, f, sg, arg, d) ==
  CASE f.k = "user" ->
         Log(s, Event("call", EmitCtx(s, sg, arg), f,
                      IF EmitCtx(s, sg, arg) = 0 THEN Unset
                      ELSE s.variables[s.current_name[EmitCtx(s, sg, arg)]]))
    [] f.k = "on_change" -> on_change(s, f.o, arg)
    [] f.k = "print_val" -> print_val(s, f.o)
    [] f.k = "link" ->
         LinkLoop(Log(s, Event("link_call", f.o, f, value(s, f.o))),
                  f.i, f.o, value(s, f.o), s.links[f.i], d)
    [] OTHER -> s

(* QTableWidget.setItem: replaces the item and emits cellChanged(row) *)
setItem(s, r, v, d) ==
  IF ~Ok(s) THEN s
  ELSE IF r >= 0 /\ r <= s.current_row
  THEN Emit([s EXCEPT !.cell[r] = v], 0, r, d)
  ELSE s

(* QSlider.setValue, QCheckBox.setChecked, QComboBox.setCurrentIndex:      *)
(* the change signal is emitted only when the widget's value changes       *)
setWidget(s, b, v, d) ==
  IF ~Ok(s) \/ s.wval[b] = v THEN s ELSE Emit(SetWidget(s, b, v), b, 0, d)

set_value(s, b, v, d) ==
  IF ~Ok(s) THEN s
  ELSE CASE s.kind[b] = "Slider" ->
            connect(setWidget(disconnect(SetVar(Log(s, Event("set_value", b, NoFn, v)), b, v),
                                         b, FuncSlot(OnChangeFn(b))),
                              b, ArgMin(s.arr[b], v), d),
                    b, FuncSlot(OnChangeFn(b)))
         [] s.kind[b] = "RateSlider" ->
            connect(setItem(disconnect(SetVar(Log(s, Event("set_value", b, NoFn, v)), b, v),
                                       0, FuncSlot(OnChangeFn(b))),
                            s.row[b], v, d),
                    0, FuncSlot(OnChangeFn(b)))
         [] s.kind[b] = "InputBox" ->
            setItem(Log(s, Event("set_value", b, NoFn, v)), s.row[b], str_value(v), d)
         [] s.kind[b] = "CheckBox" ->
            setWidget(Log(s, Event("set_value", b, NoFn, v)), b, IF v = 0 THEN 0 ELSE 1, d)
         [] s.kind[b] = "Dropdown" ->
            IF ~s.option_names[b]
            THEN Raise(Log(s, Event("set_value", b, NoFn, v)), "AttributeError")
            ELSE setWidget(Log(s, Event("set_value", b, NoFn, v)), b, OptionIndex(v), d)
         [] s.kind[b] = "ColorPicker" ->
            Emit(SetWidget(Log(s, Event("set_value", b, NoFn, v)), b, v), b, 0, d)
         [] OTHER -> Raise(Log(s, Event("set_value", b, NoFn, v)), "ValueError")

(* other_box.set_value(val) of the propagating closure of group g; the     *)
(* "push" event records how many of the receiving box's link callbacks    *)
(* are connected to its change signal while set_value runs                 *)
Push(s, g, r, v, d) ==
  IF ~Ok(s) THEN s
  ELSE set_value(Log(s, Event("push", r, LinkFn(g, r),
                              Cardinality({i \in 1..Len(s.link_funcs[r]) :
                                BoundSlot(s, r, s.link_funcs[r][i])
                                  \in Range(Slots(s, SignalOf(s, r)))}))),
                 r, v, d + 1)

(* for other_box in boxes: the body of the propagating closure *)
LinkLoop(s, g, b, v, rest, d) ==
  IF rest = <<>> \/ ~Ok(s) THEN s
  ELSE IF Head(rest) = b THEN LinkLoop(s, g, b, v, Tail(rest), d)
  ELSE IF s.kind[Head(rest)] \notin LinkableKinds THEN Raise(s, "AttributeError")
  ELSE IF ~HasLink(s, Head(rest), g) THEN LinkLoop(s, g, b, v, Tail(rest), d)
  ELSE LinkLoop(BindAll(Push(UnbindAll(s, Head(rest), s.link_funcs[Head(rest)]),
                             g, Head(rest), v, d),
                        Head(rest), s.link_funcs[Head(rest)]),
                g, b, v, Tail(rest), d)

(* ------------------------ InputTable.add_widget ----------------------- *)
(* the row add_widget returns; None when it raises "row is not empty" *)
add_widget_row(s, r) ==
  IF r = None \/ r = s.current_row + 1
  THEN (IF s.empty_rows = <<>> THEN s.current_row + 1 ELSE SortAsc(s.empty_rows)[1])
  ELSE IF r \in Range(s.empty_rows) THEN r
  ELSE IF r > s.current_row + 1 THEN r
  ELSE None

(* add_widget taking empty_rows[0] without the sort *)
add_widgetUnsorted(s, r, b) ==
  IF r = None \/ r = s.current_row + 1
  THEN (IF s.empty_rows = <<>>
        THEN [s EXCEPT !.current_row = @ + 1, !.boxes = Append(@, b)]
        ELSE [s EXCEPT !.empty_rows = Tail(@), !.boxes[Head(s.empty_rows) + 1] = b])
  ELSE IF r \in Range(s.empty_rows)
  THEN [s EXCEPT !.empty_rows = RemoveFirst(@, r), !.boxes[r + 1] = b]
  ELSE IF r > s.current_row + 1
  THEN [s EXCEPT !.current_row = r,
                 !.boxes = @ \o [i \in 1..(r - s.current_row - 1) |-> 0] \o <<b>>,
                 !.empty_rows = @ \o [i \in 1..(r - s.current_row - 1) |-> s.current_row + i]]
  ELSE Raise(s, "ValueError")

(* add_widget extending the frontier without marking the skipped rows empty *)
add_widgetNoSkip(s, r, b) ==
  IF r = None \/ r = s.current_row + 1
  THEN (IF s.empty_rows = <<>>
        THEN [s EXCEPT !.current_row = @ + 1, !.boxes = Append(@, b)]
        ELSE [s EXCEPT !.empty_rows = Tail(SortAsc(@)),
                       !.boxes[SortAsc(s.empty_rows)[1] + 1] = b])
  ELSE IF r \in Range(s.empty_rows)
  THEN [s EXCEPT !.empty_rows = RemoveFirst(@, r), !.boxes[r + 1] = b]
  ELSE IF r > s.current_row + 1
  THEN [s EXCEPT !.current_row = r,
                 !.boxes = @ \o [i \in 1..(r - s.current_row - 1) |-> 0] \o <<b>>]
  ELSE Raise(s, "ValueError")

(* boxes[i] holds the box of row i-1 (the last element of its box_row), 0 for () *)
add_widget(s, r, b) ==
  IF r = None \/ r = s.current_row + 1
  THEN (IF s.empty_rows = <<>>
        THEN [s EXCEPT !.current_row = @ + 1, !.boxes = Append(@, b)]
        ELSE [s EXCEPT !.empty_rows = Tail(SortAsc(@)),
                       !.boxes[SortAsc(s.empty_rows)[1] + 1] = b])
  ELSE IF r \in Range(s.empty_rows)
  THEN [s EXCEPT !.empty_rows = RemoveFirst(@, r), !.boxes[r + 1] = b]
  ELSE IF r > s.current_row + 1
  THEN [s EXCEPT !.current_row = r,
                 !.boxes = @ \o [i \in 1..(r - s.current_row - 1) |-> 0] \o <<b>>,
                 !.empty_rows = @ \o [i \in 1..(r - s.current_row - 1) |-> s.current_row + i]]
  ELSE Raise(s, "ValueError")

(* ----------------------------- constructors --------------------------- *)
(* Box.__init__, then row = parent.add_widget(row=row, box_row=box_row) *)
Placed(s, b, k, r) ==
  [add_widget([s EXCEPT !.kind[b] = k], r, b) EXCEPT !.row[b] = add_widget_row(s, r)]

SetOptionNames(s, b, opt) == [s EXCEPT !.option_names[b] = opt]

(* self.n_ticks, self.arr of a Slider *)
SetArr(s, b, n, a) == IF ~Ok(s) THEN s ELSE [s EXCEPT !.n_ticks[b] = n, !.arr[b] = a]

(* the constructor was given var_name = vn, None when absent *)
Named(s, b, vn) ==
  IF vn = None THEN s ELSE [s EXCEPT !.var_name[b] = vn, !.current_name[b] = vn]

(* helper_funcs.get_type_func for a number, a numeric array or a value of  *)
(* a type it does not list: the array case writes the JSON text into the   *)
(* cell of parent.current_row                                              *)
get_type_func(s, b, v) ==
  IF ~Ok(s) THEN s
  ELSE IF v = Unsupported THEN Raise(s, "NotImplementedError")
  ELSE IF v \notin Arrays THEN s
  ELSE setItem([s EXCEPT !.type_func[b] = "json"], s.current_row, json_dumps(v), 0)

(* slider.setValue(100); slider.in_middle = True *)
Center(s, b) == [s EXCEPT !.position[b] = 0, !.in_middle[b] = TRUE]

AddUpdateFunc(s, b) == [s EXCEPT !.update_funcs = Append(@, UpdateFn(b))]

(* if print_value: connect the print handler *)
ConnectPrint(s, b, pv) ==
  IF ~Ok(s) \/ ~pv \/ s.kind[b] = "Button" THEN s
  ELSE IF s.kind[b] \in CellKinds
  THEN [connect(s, 0, PrintFuncSlot(b)) EXCEPT !.printing_val[b] = TRUE]
  ELSE [connect(s, b, FuncSlot(PrintValFn(b))) EXCEPT !.printing_val[b] = TRUE]

(* the constructor body after the row was allocated; opt: option_names was *)
(* given (Dropdown) / func was given (Button)                              *)
ConstructBody(s, b, k, init, opt) ==
  CASE k = "Slider" ->
         set_value(connect(SetArr(s, b, Len(SliderArr), SliderArr), b, FuncSlot(OnChangeFn(b))),
                   b, init, 0)
    [] k = "CheckBox" ->
         connect(SetWidget(SetVar(s, b, init), b, init), b, FuncSlot(OnChangeFn(b)))
    [] k = "InputBox" ->
         connect(SetVar(get_type_func(setItem(s, s.row[b], str_value(init), 0), b, init), b, init),
                 0, FuncSlot(OnChangeFn(b)))
    [] k = "Button" -> IF opt THEN bind(s, b, UserFn(1)) ELSE s
    [] k = "Dropdown" ->
         connect(SetOptionNames(SetVar(SetWidget(s, b, init), b, Option(init)), b, opt),
                 b, FuncSlot(OnChangeFn(b)))
    [] k = "RateSlider" ->
         AddUpdateFunc(connect(SetVar(setItem(Center(SetVar(s, b, init), b), s.row[b], init, 0), b, init),
                               0, FuncSlot(OnChangeFn(b))), b)
    [] OTHER ->
         connect(SetVar(set_value(s, b, init, 0), b, init), b, FuncSlot(OnChangeFn(b)))

(* k(parent, name, init, ..., print_value=pv, row=r) *)
Construct(s, b, k, init, pv, r, opt) ==
  IF add_widget_row(s, r) = None THEN Raise(s, "ValueError")
  ELSE ConnectPrint(ConstructBody(Placed(s, b, k, r), b, k, init, opt), b, pv)

(* ------------------- InputTable.remove_row / Box.remove --------------- *)
(* for func in remove_box.change_funcs: remove_box.unbind(func), iterating *)
(* by position over the list that unbind shrinks                           *)
RECURSIVE RemoveLoop(_, _, _)
RemoveLoop(s, b, i) ==
  IF ~Ok(s) \/ i > Len(s.change_funcs[b]) THEN s
  ELSE RemoveLoop(unbind(s, b, s.change_funcs[b][i]), b, i + 1)

UnbindOnChange(s, b) ==
  IF s.kind[b] = "Button" THEN s ELSE unbind(s, b, OnChangeFn(b))

(* the cells of the row are blanked: setItem("") for an InputBox or a      *)
(* RateSlider in that row, setCellWidget(None) for a widget                *)
BlankRow(s, r) ==
  IF ~Ok(s) \/ s.boxes[r + 1] = 0 \/ s.kind[s.boxes[r + 1]] \notin CellKinds THEN s
  ELSE setItem(s, r, Blank, 0)

(* remove_row lowering the frontier without dropping the last row of boxes *)
VacateNoPop(s, r) ==
  IF ~Ok(s) THEN s
  ELSE IF r = s.current_row THEN [s EXCEPT !.current_row = @ - 1]
  ELSE [s EXCEPT !.empty_rows = Append(@, r), !.boxes[r + 1] = 0]

Vacate(s, r) ==
  IF ~Ok(s) THEN s
  ELSE IF r = s.current_row
  THEN [s EXCEPT !.current_row = @ - 1, !.boxes = SubSeq(@, 1, Len(@) - 1)]
  ELSE [s EXCEPT !.empty_rows = Append(@, r), !.boxes[r + 1] = 0]

(* remove_row rejecting only a row beyond the frontier *)
remove_rowBeyondOnly(s, r, b) ==
  IF r > s.current_row THEN Raise(s, "ValueError")
  ELSE Vacate(BlankRow(UnbindOnChange(RemoveLoop(s, b, 1), b), r), r)

remove_row(s, r, b) ==
  IF r \in Range(s.empty_rows) \/ r > s.current_row THEN Raise(s, "ValueError")
  ELSE Vacate(BlankRow(UnbindOnChange(RemoveLoop(s, b, 1), b), r), r)

remove(s, b) == remove_row(s, s.row[b], b)

(* ------------------------ InputTable.get_boxes ------------------------ *)
(* [box_row[-1] for box_row in self.boxes]: indexing the () of an empty    *)
(* row raises IndexError; otherwise the list returned is boxes itself      *)
get_boxes(s) ==
  IF \E i \in 1..Len(s.boxes) : s.boxes[i] = 0 THEN Raise(s, "IndexError") ELSE s

(* ------------------- per-frame callbacks and refresh ------------------ *)
(* MainWindow.on_refresh with no timer running (the refresh-loop style) *)
on_refresh(s, f, disc) ==
  IF ~disc \/ f \in Range(s.update_funcs)
  THEN [s EXCEPT !.update_funcs = Append(@, f)]
  ELSE s

(* the RateSlider's handle: pressed, dragged to position p (-1, 0, 1 for   *)
(* the slider positions 0, 100, 200), released                             *)
(* press_func calls the get_t of the constructor's scope *)
press_func(s, b) == [s EXCEPT !.timer[b] = s.ctor_time_var[b], !.in_middle[b] = FALSE]

drag(s, b, p) == [s EXCEPT !.position[b] = p]

release_func(s, b) == Center(s, b)

(* new_calc in absolute mode with change_rate 1: var + slider_value * dt *)
new_calc(s, b, dt) == s.variables[s.current_name[b]] + s.position[b] * dt

(* self.get_t(): the constructor's get_t until change_params replaces it  *)
(* by one that reads the wall clock or by one that reads self.time_var     *)
self_get_t(s, b) ==
  CASE s.get_t[b] = "ctor" -> s.ctor_time_var[b]
    [] s.get_t[b] = "clock" -> Clock
    [] OTHER -> s.time_var[b]

(* a per-frame callback that stepped whether or not the handle is centred *)
update_funcAlways(s, b, dt) ==
  IF ~Ok(s) THEN s
  ELSE setItem(SetVar(Log([s EXCEPT !.timer[b] = self_get_t(s, b)],
                          Event("step", b, NoFn, new_calc(s, b, dt))), b, new_calc(s, b, dt)),
               s.row[b], new_calc(s, b, dt), 0)

(* the per-frame callback of RateSlider b; dt is the time since its timer  *)
(* was last stamped                                                        *)
update_func(s, b, dt) ==
  IF ~Ok(s) \/ s.in_middle[b] THEN s
  ELSE setItem(SetVar(Log([s EXCEPT !.timer[b] = self_get_t(s, b)],
                          Event("step", b, NoFn, new_calc(s, b, dt))), b, new_calc(s, b, dt)),
               s.row[b], new_calc(s, b, dt), 0)

(* the time_var step of RateSlider.change_params; tv is the keyword's      *)
(* value, Clock for None                                                   *)
change_time_var(s, b, tv) ==
  IF tv = s.time_var[b] THEN s
  ELSE IF tv = Clock
  THEN [s EXCEPT !.timer[b] = Clock, !.get_t[b] = "clock", !.time_var[b] = tv]
  ELSE IF s.time_var[b] = Clock
  THEN [s EXCEPT !.get_t[b] = "attr", !.time_var[b] = tv]
  ELSE [s EXCEPT !.time_var[b] = tv]

(* for func in self.update_funcs: func() *)
RECURSIVE RefreshLoop(_, _, _)
RefreshLoop(s, fs, dt) ==
  IF fs = <<>> \/ ~Ok(s) THEN s
  ELSE IF Head(fs).k = "update"
  THEN RefreshLoop(update_func(s, Head(fs).o, dt), Tail(fs), dt)
  ELSE RefreshLoop(Log(s, Event("call", 0, Head(fs), Unset)), Tail(fs), dt)

refresh(s, dt) == RefreshLoop(s, s.update_funcs, dt)

(* ---------------------- change_params(print_value=pv) ----------------- *)
(* for func in self.change_funcs: disconnect(func); connect(func) *)
RECURSIVE Reorder(_, _, _)
Reorder(s, sg, fs) ==
  IF fs = <<>> \/ ~Ok(s) THEN s
  ELSE Reorder(connect(disconnect(s, sg, FuncSlot(Head(fs))), sg, FuncSlot(Head(fs))),
               sg, Tail(fs))

SetPrinting(s, b, p) == IF ~Ok(s) THEN s ELSE [s EXCEPT !.printing_val[b] = p]

(* the signal change_params takes for the box's change signal *)
ParamSignal(s, b) == IF s.kind[b] \in {"Slider", "CheckBox", "Dropdown"} THEN b ELSE 0

(* the print handler change_params connects *)
ParamPrintSlot(s, b) ==
  IF s.kind[b] \in {"InputBox", "ColorPicker"} THEN PrintFuncSlot(b) ELSE FuncSlot(PrintValFn(b))

(* the name step: nm, vn are the name and var_name keyword arguments, None *)
(* when absent                                                             *)
Rename(s, b, nm, vn) ==
  IF vn # None THEN [s EXCEPT !.current_name[b] = vn]
  ELSE IF s.var_name[b] # None THEN [s EXCEPT !.current_name[b] = s.var_name[b]]
  ELSE IF nm # None THEN [s EXCEPT !.current_name[b] = nm]
  ELSE s

(* print_value=False while printing *)
PrintOff(s, b) ==
  IF ~Ok(s) \/ ~s.printing_val[b] THEN s
  ELSE SetPrinting(disconnect(s, ParamSignal(s, b), FuncSlot(PrintValFn(b))), b, FALSE)

(* the closing part of change_params when print_value=True was given while *)
(* not printing                                                            *)
PrintOn(s, b) ==
  IF ~Ok(s) THEN s
  ELSE Reorder(SetPrinting(connect(s, ParamSignal(s, b), ParamPrintSlot(s, b)), b, TRUE),
               ParamSignal(s, b), s.change_funcs[b])

(* QSlider.setMaximum(len(arr) - 1): a position beyond the maximum is      *)
(* clamped, with the change signal emitted                                 *)
setMaximum(s, b) ==
  IF ~Ok(s) \/ s.wval[b] <= Len(s.arr[b]) - 1 THEN s
  ELSE Emit(SetWidget(s, b, Len(s.arr[b]) - 1), b, 0, 0)

(* current_val = getattr(variables, current_name); setValue(argmin) *)
Reposition(s, b) ==
  IF ~Ok(s) THEN s
  ELSE IF value(s, b) = Unset THEN Raise(s, "AttributeError")
  ELSE setWidget(s, b, ArgMin(s.arr[b], value(s, b)), 0)

(* the array step of Slider.change_params for the keyword n_ticks = nt     *)
(* (None when absent) in linear mode without tick_interval                 *)
UpdateArr(s, b, nt) ==
  IF ~Ok(s) \/ nt = None \/ s.kind[b] # "Slider" THEN s
  ELSE IF Linspace(nt) = <<>> THEN Raise([s EXCEPT !.n_ticks[b] = nt], "ValueError")
  ELSE Reposition(setMaximum(SetArr(s, b, nt, Linspace(nt)), b), b)

(* change_params(name=nm, var_name=vn, print_value=pvk, n_ticks=nt); pvk   *)
(* is "on", "off" or "keep" for an absent print_value                      *)
change_params_kw(s, b, nm, vn, pvk, nt) ==
  IF s.kind[b] = "Button" THEN s
  ELSE IF pvk = "off" THEN UpdateArr(PrintOff(Rename(s, b, nm, vn), b), b, nt)
  ELSE IF pvk = "on" /\ ~s.printing_val[b]
  THEN PrintOn(UpdateArr(Rename(s, b, nm, vn), b, nt), b)
  ELSE UpdateArr(Rename(s, b, nm, vn), b, nt)

change_params(s, b, pv) ==
  change_params_kw(s, b, None, None, IF pv THEN "on" ELSE "off", None)

(* ----------------------- TableManager.link_boxes ---------------------- *)
NewLinkFn(g, b, only) == IF b \in only THEN NoopFn(g, b) ELSE LinkFn(g, b)

AddLinkFunc(s, b, f) == [s EXCEPT !.link_funcs[b] = Append(@, f)]

RECURSIVE LinkBind(_, _, _, _)
LinkBind(s, g, rest, only) ==
  IF rest = <<>> \/ ~Ok(s) THEN s
  ELSE IF s.kind[Head(rest)] \notin LinkableKinds THEN Raise(s, "TypeError")
  ELSE LinkBind(bind(AddLinkFunc(s, Head(rest), NewLinkFn(g, Head(rest), only)),
                     Head(rest), NewLinkFn(g, Head(rest), only)),
                g, Tail(rest), only)

link_boxes(s, bs, only) ==
  LinkBind([s EXCEPT !.n_links = @ + 1, !.links[s.n_links + 1] = bs],
           s.n_links + 1, bs, only)

(* ------------------------ user interaction ---------------------------- *)
IsActive(s, b) ==
  /\ s.kind[b] # "none"
  /\ s.row[b] >= 0 /\ s.row[b] <= s.current_row
  /\ s.boxes[s.row[b] + 1] = b

(* the values a user can give the widget of box b by dragging, toggling,   *)
(* selecting, picking or editing; the toolkit signals only a real change   *)
UserInputs(s, b) ==
  CASE s.kind[b] = "Slider" -> (0..(Len(s.arr[b]) - 1)) \ {s.wval[b]}
    [] s.kind[b] = "CheckBox" -> {0, 1} \ {s.wval[b]}
    [] s.kind[b] = "Dropdown" -> Values \ {s.wval[b]}
    [] s.kind[b] = "ColorPicker" -> Values
    [] s.kind[b] = "Button" -> {0}
    [] OTHER -> Values \ {s.cell[s.row[b]]}

user_change(s, b, v) ==
  IF s.kind[b] \in CellKinds THEN setItem(s, s.row[b], v, 0)
  ELSE IF s.kind[b] = "Button" THEN Emit(s, b, 0, 0)
  ELSE Emit(SetWidget(s, b, v), b, 0, 0)

(* ------------------------------ actions ------------------------------- *)
Constructed(b) == kind[b] # "none"

NewBox(b) == kind[b] = "none" /\ \A c \in 1..(b - 1) : kind[c] # "none"

UserBinds(b) == Cardinality({i \in 1..Len(change_funcs[b]) : change_funcs[b][i].k = "user"})

DoAdd(k, init, pv, r, opt) ==
  \E b \in BoxIds :
    /\ NewBox(b)
    /\ add_widget_row(Cur, r) # None => add_widget_row(Cur, r) <= MaxRow
    /\ Commit(Construct(Log(Cur, Event("add", b, NoFn, r)), b, k, init, pv, r, opt))

DoBind(b, f) ==
  /\ Constructed(b)
  /\ UserBinds(b) < MaxBinds
  /\ Commit(bind(Log(Cur, Event("bind", b, f, 0)), b, f))

DoUnbind(b, f) ==
  /\ Constructed(b)
  /\ Commit(unbind(Log(Cur, Event("unbind", b, f, 0)), b, f))

DoSetValue(b, v) ==
  /\ Constructed(b)
  /\ Commit(set_value(Log(Cur, Event("set", b, NoFn, v)), b, v, 0))

DoUserChange(b, v) ==
  /\ IsActive(Cur, b)
  /\ v \in UserInputs(Cur, b)
  /\ Commit(user_change(Log(Cur, Event("user_change", b, NoFn, v)), b, v))

DoChangeParams(b, pv) ==
  /\ Constructed(b)
  /\ pv => Len(Slots(Cur, ParamSignal(Cur, b))) < MaxSlots
  /\ Commit(change_params(Log(Cur, Event("change_params", b, NoFn, IF pv THEN 1 ELSE 0)), b, pv))

(* change_params with the keywords name, var_name, print_value, n_ticks;   *)
(* the call is logged with its n_ticks and, as f, its other keywords       *)
DoChangeParamsKw(b, nm, vn, pvk, nt) ==
  /\ Constructed(b)
  /\ pvk = "on" => Len(Slots(Cur, ParamSignal(Cur, b))) < MaxSlots
  /\ Commit(change_params_kw(Log(Cur, Event("change_params_kw", b,
                                            [k |-> pvk, i |-> nm, o |-> vn], nt)),
                             b, nm, vn, pvk, nt))

DoLink(bs, only) ==
  /\ n_links < MaxLinks
  /\ \A i \in 1..Len(bs) : Constructed(bs[i])
  /\ Commit(link_boxes(Log(Cur, Event("link", 0, NoFn, n_links + 1)), bs, only))

DoGetBoxes == Commit(get_boxes(Log(Cur, Event("get_boxes", 0, NoFn, 0))))

DoRemove(b) ==
  /\ Constructed(b)
  /\ Commit(remove(Log(Cur, Event("remove", b, NoFn, row[b])), b))

(* the state of a fresh window: an empty table, an empty store *)
Empty(q) ==
  [current_row |-> -1, empty_rows |-> <<>>, boxes |-> <<>>,
   kind |-> [b \in BoxIds |-> "none"], row |-> [b \in BoxIds |-> None],
   wval |-> [b \in BoxIds |-> 0], cell |-> [r \in Rows |-> Blank],
   change_funcs |-> [b \in BoxIds |-> <<>>], link_funcs |-> [b \in BoxIds |-> <<>>],
   printing_val |-> [b \in BoxIds |-> FALSE], option_names |-> [b \in BoxIds |-> FALSE],
   sig |-> [b \in BoxIds |-> <<>>], cellChanged |-> <<>>,
   variables |-> [b \in BoxIds |-> Unset], n_links |-> 0,
   links |-> [g \in 1..MaxLinks |-> <<>>], update_funcs |-> <<>>,
   in_middle |-> [b \in BoxIds |-> TRUE], position |-> [b \in BoxIds |-> 0],
   current_name |-> [b \in BoxIds |-> b], var_name |-> [b \in BoxIds |-> None],
   arr |-> [b \in BoxIds |-> <<>>], n_ticks |-> [b \in BoxIds |-> 0],
   type_func |-> [b \in BoxIds |-> "literal_eval"],
   time_var |-> [b \in BoxIds |-> Clock], ctor_time_var |-> [b \in BoxIds |-> Clock],
   get_t |-> [b \in BoxIds |-> "ctor"], timer |-> [b \in BoxIds |-> Clock],
   bound |-> [b \in BoxIds |-> <<>>],
   log |-> <<>>, err |-> "none", qt_strict |-> q]

Start(s) ==
  /\ current_row = s.current_row
  /\ empty_rows = s.empty_rows
  /\ boxes = s.boxes
  /\ kind = s.kind
  /\ row = s.row
  /\ wval = s.wval
  /\ cell = s.cell
  /\ change_funcs = s.change_funcs
  /\ link_funcs = s.link_funcs
  /\ printing_val = s.printing_val
  /\ option_names = s.option_names
  /\ sig = s.sig
  /\ cellChanged = s.cellChanged
  /\ variables = s.variables
  /\ n_links = s.n_links
  /\ links = s.links
  /\ update_funcs = s.update_funcs
  /\ in_middle = s.in_middle
  /\ position = s.position
  /\ current_name = s.current_name
  /\ var_name = s.var_name
  /\ arr = s.arr
  /\ n_ticks = s.n_ticks
  /\ type_func = s.type_func
  /\ time_var = s.time_var
  /\ ctor_time_var = s.ctor_time_var
  /\ get_t = s.get_t
  /\ timer = s.timer
  /\ bound = s.bound
  /\ log = <<>>
  /\ err = "none"
  /\ qt_strict = s.qt_strict

Init == \E q \in BOOLEAN : Start(Empty(q))

(* ------------------------- reading the call log ----------------------- *)
(* log holds the calls and prints of the last operation, its first entry   *)
(* naming the operation itself                                             *)
LastOp == IF log = <<>> THEN "none" ELSE log[1].ev
LastBox == IF log = <<>> THEN 0 ELSE log[1].b
LastArg == IF log = <<>> THEN 0 ELSE log[1].v
LastFn == IF log = <<>> THEN NoFn ELSE log[1].f
Events(e) == {i \in 1..Len(log) : log[i].ev = e}
SetCalls(b) == {i \in Events("set_value") : log[i].b = b}
LinkCalls(b) == {i \in Events("link_call") : log[i].b = b}
Active(b) == IsActive(Cur, b)
ABC == {1, 2, 3}

(* boxes A, B, C (ids 1, 2, 3) of linkable variants, constructed in rows 0..2 *)
ThreeBoxes(q, k1, k2, k3) ==
  Construct(Construct(Construct(Empty(q), 1, k1, 0, FALSE, None, FALSE),
                      2, k2, 0, FALSE, None, FALSE),
            3, k3, 0, FALSE, None, FALSE)

(* ---- one group: link_boxes([A, B, C]) ---------------------------------- *)
InitGroup ==
  \E q \in BOOLEAN : \E k1 \in LinkableKinds : \E k2 \in LinkableKinds : \E k3 \in LinkableKinds :
    Start(link_boxes(ThreeBoxes(q, k1, k2, k3), <<1, 2, 3>>, {}))

NextGroup ==
  \/ \E b \in BoxIds : \E v \in Values : DoUserChange(b, v)
  \/ \E b \in BoxIds : \E v \in Values : DoSetValue(b, v)
  \/ \E b \in ABC : (\A c \in ABC : Active(c)) /\ DoRemove(b)

SpecGroup == InitGroup /\ [][NextGroup]_vars

(* ---- a chain: link_boxes([A, B]) then link_boxes([B, C]) --------------- *)
InitChain ==
  \E q \in BOOLEAN : \E k1 \in LinkableKinds : \E k2 \in LinkableKinds : \E k3 \in LinkableKinds :
    Start(link_boxes(link_boxes(ThreeBoxes(q, k1, k2, k3), <<1, 2>>, {}), <<2, 3>>, {}))

NextChain ==
  \/ \E b \in BoxIds : \E v \in Values : DoUserChange(b, v)
  \/ \E b \in BoxIds : \E v \in Values : DoSetValue(b, v)
  \/ (\A c \in ABC : Active(c)) /\ DoRemove(2)

SpecChain == InitChain /\ [][NextChain]_vars

(* ---- one group with receivers: link_boxes([A, B, C], only_update_boxes=U) *)
InitOnly ==
  \E q \in BOOLEAN : \E k1 \in LinkableKinds : \E k2 \in LinkableKinds : \E k3 \in LinkableKinds :
    \E U \in (SUBSET ABC) \ {{}} :
      Start(link_boxes(ThreeBoxes(q, k1, k2, k3), <<1, 2, 3>>, U))

NextOnly ==
  \/ \E b \in ABC : \E v \in Values : DoUserChange(b, v)
  \/ \E b \in ABC : \E v \in Values : DoSetValue(b, v)

SpecOnly == InitOnly /\ [][NextOnly]_vars

(* ---- InputBoxes holding numbers and numeric arrays ---------------------- *)
NextArray ==
  \/ \E init \in {Array(0), 0} : kind[3] = "none" /\ DoAdd("InputBox", init, FALSE, None, FALSE)
  \/ \E b \in ABC : \E v \in {Array(1), 1} : DoSetValue(b, v)
  \/ \E b \in ABC : DoUserChange(b, 0)
  \/ DoRemove(1)

SpecArray == Init /\ [][NextArray]_vars

(* ---- InputBoxes whose constructor may raise ----------------------------- *)
(* a box whose constructor raised is known to the table only: the program  *)
(* holds no reference to call its methods, the user can still edit its cell *)
NextCtor ==
  \/ \E init \in {0, Unsupported} : \E r \in {None, 2} :
       DoAdd("InputBox", init, FALSE, r, FALSE)
  \/ \E b \in BoxIds : \E v \in Values : DoUserChange(b, v)
  \/ \E b \in BoxIds : FuncSlot(OnChangeFn(b)) \in Range(cellChanged) /\ DoRemove(b)

SpecCtor == Init /\ [][NextCtor]_vars

(* ---- link_boxes calls that may name an unlinkable box ------------------- *)
InitLink ==
  \E q \in BOOLEAN : \E k1 \in LinkableKinds : \E k2 \in LinkableKinds :
    \E k3 \in {"CheckBox", "Dropdown"} : Start(ThreeBoxes(q, k1, k2, k3))

NextLink ==
  \/ \E bs \in {<<1, 2>>, <<1, 2, 3>>, <<3, 1>>} : DoLink(bs, {})
  \/ \E b \in ABC : \E v \in Values : DoUserChange(b, v)
  \/ \E b \in ABC : \E v \in Values : DoSetValue(b, v)

SpecLink == InitLink /\ [][NextLink]_vars

(* ---- one box of any variant: its whole life ---------------------------- *)
NextBox ==
  \/ \E k \in AllKinds : \E pv \in BOOLEAN : \E opt \in BOOLEAN :
       kind[1] = "none" /\ DoAdd(k, 0, pv, None, opt)
  \/ \E f \in Funcs : DoBind(1, UserFn(f))
  \/ \E f \in Funcs : DoUnbind(1, UserFn(f))
  \/ \E v \in Values : DoSetValue(1, v)
  \/ \E v \in Values : DoUserChange(1, v)
  \/ \E pv \in BOOLEAN : DoChangeParams(1, pv)
  \/ DoRemove(1)

SpecBox == Init /\ [][NextBox]_vars

(* ---- one Slider, renamed and reconfigured ------------------------------ *)
(* the second name a Slider can be given; no box is constructed with it    *)
OtherName == 2
Names == {None, OtherName}
ThirdName == 3
Ticks == {None, 0, 1, 2, 3}

DoAddNamed(k, init, pv, vn) ==
  \E b \in BoxIds :
    /\ NewBox(b)
    /\ add_widget_row(Cur, None) <= MaxRow
    /\ Commit(Construct(Named(Log(Cur, Event("add", b, NoFn, None)), b, vn),
                        b, k, init, pv, None, FALSE))

NextSlider ==
  \/ \E init \in Values : \E pv \in BOOLEAN : \E vn \in Names :
       kind[1] = "none" /\ DoAddNamed("Slider", init, pv, vn)
  \/ change_funcs[1] = <<>> /\ DoBind(1, UserFn(1))
  \/ DoUnbind(1, UserFn(1))
  \/ \E v \in MinValue..MaxValue : DoSetValue(1, v)
  \/ \E v \in MinValue..MaxValue : DoUserChange(1, v)
  \/ \E nm \in Names : \E vn \in Names \cup {ThirdName} : \E nt \in Ticks :
       DoChangeParamsKw(1, nm, vn, "keep", nt)

SpecSlider == Init /\ [][NextSlider]_vars

(* ---- a RateSlider and the refresh loop --------------------------------- *)
IsRate(b) == kind[b] = "RateSlider" /\ IsActive(Cur, b)

DoOnRefresh(f, disc) ==
  /\ Len(update_funcs) < MaxUpdates
  /\ Commit(on_refresh(Log(Cur, Event("on_refresh", 0, f, IF disc THEN 1 ELSE 0)), f, disc))

DoPress(b) ==
  /\ IsRate(b) /\ in_middle[b]
  /\ Commit(press_func(Log(Cur, Event("press", b, NoFn, 0)), b))

(* the handle is moved to p: dragged while pressed, or moved by the        *)
(* keyboard or the wheel, which emit neither sliderPressed nor             *)
(* sliderReleased                                                          *)
DoDrag(b, p) ==
  /\ IsRate(b) /\ p # position[b]
  /\ Commit(drag(Log(Cur, Event("drag", b, NoFn, p)), b, p))

(* add_rate_slider(..., time_var=tv): the constructor keeps tv as         *)
(* self.time_var and in the closure of its get_t, and stamps self.timer    *)
(* only when tv is None                                                    *)
DoAddTimed(tv) ==
  \E b \in BoxIds :
    /\ NewBox(b)
    /\ add_widget_row(Cur, None) <= MaxRow
    /\ Commit(Construct([Log(Cur, Event("add", b, NoFn, None))
                           EXCEPT !.time_var[b] = tv, !.ctor_time_var[b] = tv,
                                  !.timer[b] = IF tv = Clock THEN Clock ELSE Unset],
                        b, "RateSlider", 0, FALSE, None, FALSE))

DoChangeTimeVar(b, tv) ==
  /\ IsRate(b)
  /\ Commit(change_time_var(Log(Cur, Event("change_time_var", b, NoFn, tv)), b, tv))

DoRelease(b) ==
  /\ IsRate(b) /\ ~in_middle[b]
  /\ Commit(release_func(Log(Cur, Event("release", b, NoFn, 0)), b))

(* the values stay within Values *)
DoRefresh(dt) ==
  /\ \A b \in BoxIds :
       (UpdateFn(b) \in Range(update_funcs) /\ ~in_middle[b]) =>
         new_calc(Cur, b, dt * Count(update_funcs, UpdateFn(b))) \in Values
  /\ Commit(refresh(Log(Cur, Event("refresh", 0, NoFn, dt)), dt))

NextRate ==
  \/ \E pv \in BOOLEAN : kind[1] = "none" /\ DoAdd("RateSlider", 0, pv, None, FALSE)
  \/ \E f \in Funcs : \E disc \in BOOLEAN : DoOnRefresh(UserFn(f), disc)
  \/ DoPress(1)
  \/ \E p \in {-1, 0, 1} : DoDrag(1, p)
  \/ DoRelease(1)
  \/ \E dt \in {0, 1} : DoRefresh(dt)
  \/ \E v \in Values : DoSetValue(1, v)
  \/ DoRemove(1)

SpecRate == Init /\ [][NextRate]_vars

(* ---- a RateSlider and its time source ---------------------------------- *)
(* the store variables 3 and 4 serve as time variables *)
NextTime ==
  \/ \E tv \in {Clock, 3} : kind[1] = "none" /\ DoAddTimed(tv)
  \/ \E tv \in {Clock, 3, 4} : DoChangeTimeVar(1, tv)
  \/ DoPress(1)
  \/ \E p \in {-1, 0, 1} : DoDrag(1, p)
  \/ DoRelease(1)
  \/ \E dt \in {0, 1} : DoRefresh(dt)

SpecTime == Init /\ [][NextTime]_vars

(* ---- the table: rows allocated, vacated and reused --------------------- *)
NextTable ==
  \/ \E r \in Rows \cup {None} : DoAdd("CheckBox", 0, FALSE, r, FALSE)
  \/ \E b \in BoxIds : DoRemove(b)
  \/ DoGetBoxes

SpecTable == Init /\ [][NextTable]_vars

(* ------------------------------ claims -------------------------------- *)
(* C1: for boxes A, B, C linked as one group by a single link_boxes call,  *)
(* a value change of A results in exactly one set_value call on B and      *)
(* exactly one on C with A's value, A itself is not set, and no link       *)
(* callback of B or C fires during the propagation.                        *)
C1_GroupPropagatesOnce ==
  (LastOp = "user_change" /\ \A b \in ABC : Active(b)) =>
    /\ SetCalls(LastBox) = {}
    /\ \A b \in ABC \ {LastBox} :
         /\ Cardinality(SetCalls(b)) = 1
         /\ \A i \in SetCalls(b) : log[i].v = value(Cur, LastBox)
         /\ LinkCalls(b) = {}

(* C2: after link_boxes([A, B]) followed by link_boxes([B, C]), changing A *)
(* updates B (B is set once, and holds A's value afterwards) but does not  *)
(* update C, and changing C updates B but does not update A.               *)
BoxState(b) == <<variables[b], wval[b], cell[row[b]], change_funcs[b], sig[b]>>

ChainStep(a, far) ==
  (LastOp' = "user_change" /\ LastBox' = a) =>
    /\ Cardinality(SetCalls(2)') = 1
    /\ variables'[2] = variables'[a]
    /\ SetCalls(far)' = {} /\ SetCalls(a)' = {}
    /\ LinkCalls(far)' = {} /\ LinkCalls(2)' = {}
    /\ BoxState(far)' = BoxState(far)

C2_ChainIsNotTransitive == [][ChainStep(1, 3) /\ ChainStep(3, 1)]_vars

(* C3: after a box B of a link group has been removed with remove(), a     *)
(* value change of any other box A of that group raises no error and still *)
(* sets every remaining member of the group to A's value.                  *)
C3_RemovedMemberIsSkipped ==
  (/\ LastOp = "user_change"
   /\ \E b \in ABC : ~Active(b)
   /\ LinkFn(1, LastBox) \in Range(change_funcs[LastBox])) =>
    /\ Events("slot_error") = {}
    /\ \A c \in ABC \ {LastBox} :
         Active(c) => \E i \in SetCalls(c) : log[i].v = value(Cur, LastBox)

(* C4: after remove() on an active box with any number of bound callbacks, *)
(* none of those callbacks and not the box's on-change handler is still    *)
(* connected to the box's change signal, and change_funcs is empty.        *)
OwnSlots(s, b) ==
  {FuncSlot(OnChangeFn(b))} \cup {BoundSlot(s, b, f) : f \in Range(s.change_funcs[b])}

SlotsOf(b) == Slots(Cur, SignalOf(Cur, b))

C4_RemoveDisconnectsAll ==
  [][\A b \in BoxIds :
       (LastOp' = "remove" /\ LastBox' = b /\ Active(b)) =>
         /\ change_funcs'[b] = <<>>
         /\ OwnSlots(Cur, b) \cap Range(SlotsOf(b)') = {}]_vars

(* C5: for every box variant including Button, unbind(f) succeeds exactly  *)
(* when f has been bound to the box more times than it has been unbound;   *)
(* otherwise it raises an error and leaves the bound-callback list and the *)
(* signal connections unchanged.                                           *)
C5_UnbindOncePerBind ==
  [][LastOp' = "unbind" =>
       IF Count(bound[LastBox'], LastFn') > 0 THEN err' = "none"
       ELSE /\ err' # "none"
            /\ change_funcs' = change_funcs
            /\ sig' = sig /\ cellChanged' = cellChanged]_vars

(* C6: on every user-driven change of a box the handlers run in the order  *)
(* on-change handler, print handler if printing is enabled, bound          *)
(* callbacks in bind order; every print and every bound callback reads the *)
(* new value.                                                              *)
NewValue(b, v) ==
  CASE kind[b] = "Slider" -> arr[b][v + 1]
    [] kind[b] = "Dropdown" -> Option(v)
    [] OTHER -> v

IsCall(e) == e.ev = "call"

Called == SelectSeq(log, IsCall)

C6_HandlerOrder ==
  (LastOp = "user_change" /\ kind[LastBox] # "Button") =>
    /\ \A i \in Events("call") \cup Events("print") :
         log[i].v = NewValue(LastBox, LastArg)
    /\ \A i \in Events("print") : \A j \in Events("call") : i < j
    /\ printing_val[LastBox] => Events("print") # {}
    /\ [i \in 1..Len(Called) |-> Called[i].f] = change_funcs[LastBox]

(* C7: for every variant but Button, after change_params(print_value=True) *)
(* on a box that already has bound callbacks, the print handler is         *)
(* connected to the same change signal as those callbacks and runs before  *)
(* each of them, and the callbacks stay connected exactly once each in     *)
(* their original bind order.                                              *)
IsUserSlot(sl) == sl.f.k = "user"

C7_PrintFirstAfterChangeParams ==
  (/\ LastOp = "change_params" /\ LastArg = 1
   /\ kind[LastBox] # "Button" /\ Active(LastBox)
   /\ change_funcs[LastBox] # <<>>) =>
    /\ err = "none"
    /\ SelectSeq(SlotsOf(LastBox), IsUserSlot)
         = [i \in 1..Len(change_funcs[LastBox]) |->
              BoundSlot(Cur, LastBox, change_funcs[LastBox][i])]
    /\ \E p \in 1..Len(SlotsOf(LastBox)) :
         /\ SlotsOf(LastBox)[p].f = PrintValFn(LastBox)
         /\ \A j \in 1..p : ~IsUserSlot(SlotsOf(LastBox)[j])

(* C8: add_widget with no explicit row, called while empty_rows is         *)
(* non-empty, places the box in the lowest-numbered empty row, removes     *)
(* that index from empty_rows and leaves current_row unchanged; the        *)
(* frontier is extended by one only when empty_rows is empty.              *)
Lowest(q) == CHOOSE m \in Range(q) : \A x \in Range(q) : m <= x

C8_LowestEmptyRowReused ==
  [][(LastOp' = "add" /\ LastArg' = None) =>
       IF empty_rows # <<>>
       THEN /\ row'[LastBox'] = Lowest(empty_rows)
            /\ boxes' = [boxes EXCEPT ![Lowest(empty_rows) + 1] = LastBox']
            /\ Range(empty_rows') = Range(empty_rows) \ {Lowest(empty_rows)}
            /\ Len(empty_rows') = Len(empty_rows) - 1
            /\ current_row' = current_row
       ELSE /\ row'[LastBox'] = current_row + 1
            /\ boxes' = Append(boxes, LastBox')
            /\ empty_rows' = <<>>
            /\ current_row' = current_row + 1]_vars

(* rows 0..2 were filled, row 1 was vacated by a remove, and the add with   *)
(* no explicit row has just placed its box in row 1                        *)
C8_Witness ==
  /\ LastOp = "add" /\ LastArg = None
  /\ row[LastBox] = 1 /\ current_row = 2 /\ empty_rows = <<>>
  /\ \E b \in BoxIds \ {LastBox} : row[b] = 1 /\ ~Active(b)
  /\ \A r \in 0..2 : boxes[r + 1] # 0

(* C9: after remove() on a box its row attribute is None, and a later      *)
(* bind(f) on the removed box is rejected with an error instead of         *)
(* connecting f.                                                           *)
C9_RemovedBoxRejectsBind ==
  [][/\ (LastOp' = "remove" /\ err' = "none") => row'[LastBox'] = None
     /\ (LastOp' = "bind" /\ \E b \in BoxIds : LastBox' = b /\ ~Active(b)) =>
          (err' # "none" /\ sig' = sig /\ cellChanged' = cellChanged)]_vars

(* C10: constructing a RateSlider appends exactly one per-frame callback   *)
(* to update_funcs, and remove() on that RateSlider removes it again.      *)
C10_UpdateFuncRemoved ==
  /\ (LastOp = "add" /\ err = "none" /\ kind[LastBox] = "RateSlider") =>
       Count(update_funcs, UpdateFn(LastBox)) = 1
  /\ (LastOp = "remove" /\ err = "none" /\ kind[LastBox] = "RateSlider") =>
       UpdateFn(LastBox) \notin Range(update_funcs)

(* C11: on_refresh(f) appends f to update_funcs; on_refresh(f,             *)
(* disconnect=True) removes one registration of f, so that registering and *)
(* then unregistering restores the list; for an f that is not registered   *)
(* it leaves update_funcs unchanged.                                       *)
C11_OnRefreshRegistersAndUnregisters ==
  [][LastOp' = "on_refresh" =>
       IF LastArg' = 0 THEN update_funcs' = Append(update_funcs, LastFn')
       ELSE IF LastFn' \in Range(update_funcs)
       THEN \E i \in 1..Len(update_funcs) :
              update_funcs[i] = LastFn' /\ update_funcs' = RemoveAt(update_funcs, i)
       ELSE update_funcs' = update_funcs]_vars

(* Slider.value() of box 1, the store variable of its current name *)
SliderValue == variables[current_name[1]]

(* position p is the lowest index of arr[1] closest to v *)
Closest(p, v) ==
  /\ p \in 0..(Len(arr[1]) - 1)
  /\ \A j \in 1..Len(arr[1]) : Abs(arr[1][p + 1] - v) <= Abs(arr[1][j] - v)
  /\ \A j \in 1..p : Abs(arr[1][j] - v) > Abs(arr[1][p + 1] - v)

C13_EmptyArrayLeavesSlider ==
  [][(LastOp' = "change_params_kw" /\ LastArg' = 0) =>
       /\ err' # "none"
       /\ arr'[1] = arr[1]
       /\ SliderValue' = SliderValue]_vars

(* box b was passed in only_update_boxes: its link callback does nothing *)
OnlyUpdate(b) == \E i \in 1..Len(link_funcs[b]) : link_funcs[b][i].k = "noop"

(* C14: in link_boxes(boxes, only_update_boxes=U) a value change of a box  *)
(* in U sets no other box of the group; a value change of a box not in U   *)
(* sets every other box of the group, those in U included, to its value.   *)
C14_OnlyUpdateBoxes ==
  /\ (LastOp \in {"user_change", "set"} /\ OnlyUpdate(LastBox)) =>
       \A b \in ABC \ {LastBox} : SetCalls(b) = {}
  /\ (LastOp = "user_change" /\ ~OnlyUpdate(LastBox)) =>
       \A b \in ABC \ {LastBox} :
         \E i \in SetCalls(b) : log[i].v = value(Cur, LastBox)

(* C15: after any sequence of additions and removals, removal of a row    *)
(* that is not the last one included, get_boxes() returns without error    *)
(* exactly the boxes of the active rows, one per active row and none for   *)
(* an empty row.                                                           *)
C15_GetBoxesActiveRows ==
  LastOp = "get_boxes" =>
    /\ err = "none"
    /\ Range(boxes) = {b \in BoxIds : Active(b)}
    /\ Len(boxes) = Cardinality({b \in BoxIds : Active(b)})

(* C16: add_widget with an explicit row greater than current_row + 1      *)
(* extends the frontier so that current_row equals that row, places the    *)
(* box in exactly that row and returns it, and marks every skipped row     *)
(* (old current_row + 1 .. row - 1) as empty and available for reuse.      *)
C16_ExplicitRowBeyondFrontier ==
  [][(LastOp' = "add" /\ LastArg' # None /\ LastArg' > current_row + 1) =>
       /\ err' = "none"
       /\ current_row' = LastArg'
       /\ row'[LastBox'] = LastArg'
       /\ Len(boxes') = LastArg' + 1
       /\ \A r \in 0..LastArg' :
            boxes'[r + 1] = IF r = LastArg' THEN LastBox'
                            ELSE IF r > current_row THEN 0 ELSE boxes[r + 1]
       /\ Len(empty_rows') = Len(empty_rows) + (LastArg' - current_row - 1)
       /\ Range(empty_rows') = Range(empty_rows) \cup ((current_row + 1)..(LastArg' - 1))]_vars

(* the first box went to row 0, and one added with row 3 has just been     *)
(* placed there: rows 1 and 2 were skipped and are empty                   *)
C16_Witness ==
  /\ LastOp = "add" /\ LastArg = 3
  /\ current_row = 3 /\ row[LastBox] = 3
  /\ boxes = <<1, 0, 0, LastBox>>
  /\ Range(empty_rows) = {1, 2}

(* the table and every callback connection *)
TableState == <<current_row, empty_rows, boxes, sig, cellChanged>>

(* C17: remove_row for a row that is in empty_rows or greater than         *)
(* current_row raises an error and leaves current_row, empty_rows, boxes   *)
(* and every callback connection unchanged; add_widget with an explicit    *)
(* row that is active raises an error and leaves that state unchanged too. *)
C17_RejectedRowsChangeNothing ==
  [][/\ (LastOp' = "remove" /\ (LastArg' \in Range(empty_rows) \/ LastArg' > current_row)) =>
          (err' = "ValueError" /\ TableState' = TableState)
     /\ (LastOp' = "add" /\ LastArg' # None /\ LastArg' <= current_row
            /\ LastArg' \notin Range(empty_rows)) =>
          (err' = "ValueError" /\ TableState' = TableState)]_vars

(* a box already removed from row 0 has been removed again while another   *)
(* box is active in row 1: the call raised                                 *)
C17_Witness ==
  /\ LastOp = "remove" /\ LastArg = 0 /\ err = "ValueError"
  /\ 0 \in Range(empty_rows)
  /\ current_row >= 1 /\ boxes[2] # 0

(* C18: for a Dropdown, with or without option_names, set_value(v) for v   *)
(* in options selects the index of v and value() then returns v; after any *)
(* selection the store variable equals options[current index].             *)
C18_DropdownSetValue ==
  (kind[1] = "Dropdown" /\ Active(1)) =>
    /\ LastOp = "set" =>
         (err = "none" /\ Option(wval[1]) = LastArg /\ value(Cur, 1) = LastArg)
    /\ LastOp \in {"set", "user_change"} => variables[1] = Option(wval[1])

(* C19: for an InputBox whose value is a numeric array, the cell of the    *)
(* box's own row holds JSON list text after construction, in whichever row *)
(* the box was placed, and after every set_value with an array, never the  *)
(* array's native text; constructing the box writes no other row's cell.   *)
C19_ArrayCellIsJson ==
  [][/\ (LastOp' = "add" /\ err' = "none" /\ type_func'[LastBox'] = "json") =>
          /\ cell'[row'[LastBox']] = json_dumps(variables'[LastBox'])
          /\ \A r \in Rows \ {row'[LastBox']} : cell'[r] = cell[r]
     /\ (LastOp' = "set" /\ LastArg' \in Arrays /\ type_func[LastBox'] = "json"
            /\ \E b \in BoxIds : LastBox' = b /\ Active(b)) =>
          cell'[row'[LastBox']] = json_dumps(LastArg')]_vars

(* the integration steps the last operation made on box 1 *)
Steps == {i \in Events("step") : log[i].b = 1}

(* C20: after a RateSlider's release its stored variable is not changed by *)
(* any number of invocations of its per-frame callback until it is pressed *)
(* again; between press and release every invocation applies one           *)
(* integration step. Release closes the gate in_middle, press opens it,    *)
(* nothing else moves it, and a refresh steps exactly when it is open.     *)
C20_SteppingOnlyWhilePressed ==
  [][kind[1] = "RateSlider" =>
       /\ LastOp' = "release" => in_middle'[1]
       /\ LastOp' = "press" => ~in_middle'[1]
       /\ LastOp' \notin {"press", "release"} => in_middle'[1] = in_middle[1]
       /\ (LastOp' = "refresh" /\ in_middle[1]) =>
            (Steps' = {} /\ variables'[1] = variables[1] /\ cell' = cell)
       /\ (LastOp' = "refresh" /\ ~in_middle[1]) =>
            /\ Cardinality(Steps') = Count(update_funcs, UpdateFn(1))
            /\ variables'[1] = variables[1]
                 + position[1] * LastArg' * Count(update_funcs, UpdateFn(1))]_vars

(* the handle was pressed, moved off the centre by the keyboard after its  *)
(* release, and a refresh with dt = 1 has left the variable alone          *)
C20_Witness ==
  /\ LastOp = "refresh" /\ LastArg = 1
  /\ IsRate(1) /\ in_middle[1] /\ position[1] = 1
  /\ UpdateFn(1) \in Range(update_funcs)
  /\ variables[1] = 1

(* C21: a RateSlider measures dt on its configured time source: after     *)
(* change_params(time_var=X), whatever the setting before, the timer reset *)
(* on press and the time stamp of every later integration step are read    *)
(* from X, and after change_params(time_var=None) from the wall clock.     *)
C21_TimeSourceFollowsTimeVar ==
  [][kind[1] = "RateSlider" =>
       /\ LastOp' = "press" => timer'[1] = time_var[1]
       /\ (LastOp' = "refresh" /\ ~in_middle[1]) => timer'[1] = time_var[1]]_vars

(* C22: remove() of a box leaves the variable store unchanged: every name *)
(* keeps its value, the removed box's own name included.                   *)
C22_RemoveKeepsStore ==
  [][LastOp' = "remove" => variables' = variables]_vars


(* C23: while the link callback of group g pushes a value into a receiving *)
(* box, only that box's link callback of group g is disconnected, its link *)
(* callbacks of the other groups stay connected during the set_value, and  *)
(* after the propagation every link callback of every box is connected     *)
(* exactly once.                                                           *)
C23_OnlyFiringGroupSuspended ==
  LastOp = "user_change" =>
    /\ \A i \in Events("push") : log[i].v = Len(link_funcs[log[i].b]) - 1
    /\ (Events("slot_error") = {} =>
          \A b \in ABC : \A j \in 1..Len(link_funcs[b]) :
            Count(Slots(Cur, SignalOf(Cur, b)), BoundSlot(Cur, b, link_funcs[b][j])) = 1)

(* C24: a Slider change_params call that fails because the resulting array *)
(* would be empty mutates no state of the slider: n_ticks, the array, the  *)
(* bound variable name and the slider position keep the values they had    *)
(* before the call (the value range is fixed here).                        *)
C24_FailedChangeParamsIsAtomic ==
  [][(LastOp' = "change_params_kw" /\ LastArg' = 0) =>
       /\ n_ticks'[1] = n_ticks[1]
       /\ arr'[1] = arr[1]
       /\ current_name'[1] = current_name[1]
       /\ wval'[1] = wval[1]]_vars

(* C25: after any sequence of add_widget and remove_row calls on a table,  *)
(* len(boxes) = current_row + 1, empty_rows has no duplicates, every index *)
(* in empty_rows lies in 0..current_row, and boxes[i] is the empty tuple   *)
(* exactly when i is in empty_rows.                                        *)
C25_TableInvariant ==
  /\ Len(boxes) = current_row + 1
  /\ \A i \in 1..Len(empty_rows) : \A j \in 1..Len(empty_rows) :
       i # j => empty_rows[i] # empty_rows[j]
  /\ \A i \in 1..Len(empty_rows) : empty_rows[i] \in 0..current_row
  /\ \A r \in 0..current_row : (boxes[r + 1] = 0) <=> (r \in Range(empty_rows))

(* a remove has just lowered the frontier from row 3 to row 2 while rows 0  *)
(* and 1 below it are empty                                                *)
C25_Witness ==
  /\ LastOp = "remove" /\ err = "none" /\ LastArg = 3
  /\ current_row = 2 /\ Range(empty_rows) = {0, 1} /\ boxes[3] # 0

(* C26: remove() on an already removed box raises an error and changes      *)
(* nothing: current_row, empty_rows, boxes, the cells and every callback   *)
(* connection stay as they were, also when the row the box formerly        *)
(* occupied has since been reused by another box.                          *)
C26_SecondRemoveRejected ==
  [][\A b \in BoxIds :
       (LastOp' = "remove" /\ LastBox' = b /\ kind[b] # "none" /\ ~Active(b)) =>
         (err' # "none" /\ TableState' = TableState /\ cell' = cell)]_vars

(* C27: when a box constructor raises (here: an InputBox given a value of   *)
(* an unsupported type), the table's current_row, empty_rows and boxes are *)
(* the same as before the call: a failed construction allocates no row.    *)
C27_FailedConstructorAllocatesNoRow ==
  [][(LastOp' = "add" /\ err' # "none") =>
       /\ current_row' = current_row
       /\ empty_rows' = empty_rows
       /\ boxes' = boxes]_vars

(* C28: if link_boxes raises because one of the given boxes is unlinkable,  *)
(* no box of that call is left with a link callback bound or with a        *)
(* link_funcs entry for the new group: the bound-callback lists, the       *)
(* link_funcs and every signal connection are as before the call.          *)
C28_FailedLinkBindsNothing ==
  [][(LastOp' = "link" /\ err' # "none") =>
       /\ link_funcs' = link_funcs
       /\ change_funcs' = change_funcs
       /\ sig' = sig /\ cellChanged' = cellChanged]_vars

(* C29: a change_params call whose arguments contain neither name nor      *)
(* var_name leaves current_name, the variable name the box reads and       *)
(* writes, unchanged, also when it was set by an earlier                   *)
(* change_params(var_name=...) on a box constructed with a var_name.       *)
C29_ChangeParamsKeepsName ==
  [][(LastOp' = "change_params_kw" /\ LastFn'.i = None /\ LastFn'.o = None) =>
       current_name'[1] = current_name[1]]_vars

(* the print handlers of box b connected to any signal *)
PrintSlots(b) ==
  Cardinality({i \in 1..Len(cellChanged) : cellChanged[i].f = PrintValFn(b)})
    + Cardinality({i \in 1..Len(sig[b]) : sig[b][i].f = PrintValFn(b)})

(* C30: at most one print handler is connected per box at any time; after  *)
(* a change_params(print_value=True) call one is connected and a change of *)
(* the box prints its value exactly once, after a                          *)
(* change_params(print_value=False) call none is connected and a change    *)
(* prints nothing.                                                         *)
C30_OnePrintHandler ==
  /\ PrintSlots(1) <= 1
  /\ (LastOp = "change_params" /\ kind[1] # "Button" /\ Active(1)) =>
       PrintSlots(1) = LastArg
  /\ (LastOp = "user_change" /\ kind[1] # "Button") =>
       Cardinality(Events("print")) = PrintSlots(1)

====
